---------------------------- MODULE Spec2Model ----------------------------
(***************************************************************************)
(* l10n-glossary: the glossary data model (Term, Glossary.merge), the      *)
(* window handlers that change the glossary's term list, and the           *)
(* consistency checker (check_consistency, _check_po, _check_ts).          *)
(*                                                                         *)
(* A Python str is a sequence of one-character strings, so that            *)
(* lower-casing, substring search, slicing and the regular expressions     *)
(* are computed character by character.  Str turns a literal into that     *)
(* representation.  The presentation widgets (list store, labels,          *)
(* dialogs) are derived from the term list and are not part of the state.  *)
(***************************************************************************)
EXTENDS Integers, Sequences, FiniteSets, TLC

VARIABLES
    glossary,      \* GlossaryWindow.glossary.terms (the receiver's term list)
    other,         \* other.terms after the merge whose result is being shown
    otherLoaded,   \* other.terms as load_glossary returned it for that merge
    before,        \* self.terms as it was when that merge was called
    added,         \* the integer that merge returned
    dialog,        \* the dialog presented on the window: <<"none">>, <<"merged", n>>,
                   \* <<"imported", n>>, <<"info">>, <<"issues">> or <<"error">>
    file,          \* the file handed to the check_consistency call whose result is shown
    result         \* the result of that call

vars == <<glossary, other, otherLoaded, before, added, dialog, file, result>>

(***************************************************************************)
(* Strings                                                                 *)
(***************************************************************************)
Str(s) == [i \in 1..Len(s) |-> SubSeq(s, i, i)]

Range(seq) == {seq[i] : i \in 1..Len(seq)}

Min(S) == CHOOSE x \in S : \A y \in S : x <= y
Max(S) == CHOOSE x \in S : \A y \in S : x >= y

UpperCase == Str("ABCDEFGHIJKLMNOPQRSTUVWXYZ")
LowerCase == Str("abcdefghijklmnopqrstuvwxyz")

\* str.lower(), on the ASCII letters the inputs are written in
LowerOf == [c \in Range(UpperCase) |->
               LowerCase[CHOOSE i \in 1..Len(UpperCase) : UpperCase[i] = c]]

LowerChar(c) == IF c \in DOMAIN LowerOf THEN LowerOf[c] ELSE c
Lower(s) == [i \in 1..Len(s) |-> LowerChar(s[i])]

\* s[p:p+len(lit)] == lit
StartsWithAt(s, p, lit) ==
    /\ p >= 1
    /\ p + Len(lit) - 1 <= Len(s)
    /\ SubSeq(s, p, p + Len(lit) - 1) = lit

\* needle in hay (str containment: the empty needle is in every hay)
ContainsAtWordStart(needle, hay) ==
    \E p \in 1..(Len(hay) + 1) :
        /\ StartsWithAt(hay, p, needle)
        /\ (p = 1 \/ hay[p - 1] = " ")
\* Variant in which the empty needle is in no hay (sensitivity of C19)
ContainsNonEmpty(needle, hay) ==
    /\ needle # <<>>
    /\ \E p \in 1..(Len(hay) + 1) : StartsWithAt(hay, p, needle)
Contains(needle, hay) == \E p \in 1..(Len(hay) + 1) : StartsWithAt(hay, p, needle)

\* The characters \s matches and str.strip() strips
Whitespace == {" ", "\t", "\n", "\r", "\f"}

\* The first position at or after p that holds no character of S
\* (Len(s) + 1 when every character from p on is in S)
SkipWhile(s, p, S) ==
    CHOOSE k \in p..(Len(s) + 1) :
        /\ k = Len(s) + 1 \/ s[k] \notin S
        /\ \A j \in p..(k - 1) : s[j] \in S

\* The first position at or after p that holds a character of S
\* (Len(s) + 1 when no character from p on is in S)
SkipUntil(s, p, S) ==
    CHOOSE k \in p..(Len(s) + 1) :
        /\ k = Len(s) + 1 \/ s[k] \in S
        /\ \A j \in p..(k - 1) : s[j] \notin S

\* str.strip()
Strip(s) ==
    LET first == SkipWhile(s, 1, Whitespace)
        kept == {k \in 1..Len(s) : s[k] \notin Whitespace}
    IN IF kept = {} THEN <<>> ELSE SubSeq(s, first, Max(kept))

\* str.replace(old, new) from position p on: the occurrences of old (not
\* empty) left to right, not overlapping
RECURSIVE ReplaceFrom(_, _, _, _)
ReplaceFrom(s, p, old, new) ==
    LET hits == {k \in p..Len(s) : StartsWithAt(s, k, old)}
    IN IF hits = {} THEN SubSeq(s, p, Len(s))
       ELSE SubSeq(s, p, Min(hits) - 1) \o new
                \o ReplaceFrom(s, Min(hits) + Len(old), old, new)

Replace(s, old, new) == ReplaceFrom(s, 1, old, new)

(***************************************************************************)
(* Glossary data model (glossary.py)                                       *)
(***************************************************************************)
Term(source, target, language, context, comment) ==
    [source |-> source, target |-> target, language |-> language,
     context |-> context, comment |-> comment]

\* key = (t.source, t.target, t.language), compared by str equality
KeyWithContext(t) == <<t.source, t.target, t.language, t.context>>
Key(t) == <<t.source, t.target, t.language>>

\* existing = {(t.source, t.target, t.language) for t in self.terms}
ExistingEmpty(terms) == {}
Existing(terms) == {Key(terms[i]) : i \in 1..Len(terms)}

\* The loop of merge: i is the position in other.terms, `existing` the set of
\* keys seen, `added` the counter.  other.terms is only read.
RECURSIVE MergeLoopNoRecord(_, _, _, _, _)
MergeLoopNoRecord(terms, otherTerms, existing, i, n) ==
    IF i > Len(otherTerms)
    THEN [terms |-> terms, other |-> otherTerms, added |-> n]
    ELSE LET t == otherTerms[i]
             key == Key(t)
         IN IF key \notin existing
            THEN MergeLoopNoRecord(Append(terms, t), otherTerms, existing, i + 1, n + 1)
            ELSE MergeLoopNoRecord(terms, otherTerms, existing, i + 1, n)

RECURSIVE MergeLoopConsuming(_, _, _, _, _)
MergeLoopConsuming(terms, otherTerms, existing, i, n) ==
    IF i > Len(otherTerms)
    THEN [terms |-> terms, other |-> otherTerms, added |-> n]
    ELSE LET t == otherTerms[i]
             key == Key(t)
             rest == [j \in 1..(Len(otherTerms) - 1) |->
                         IF j < i THEN otherTerms[j] ELSE otherTerms[j + 1]]
         IN IF key \notin existing
            THEN MergeLoopConsuming(Append(terms, t), rest, existing \cup {key}, i, n + 1)
            ELSE MergeLoopConsuming(terms, otherTerms, existing, i + 1, n)

RECURSIVE MergeLoopMiscount(_, _, _, _, _)
MergeLoopMiscount(terms, otherTerms, existing, i, n) ==
    IF i > Len(otherTerms)
    THEN [terms |-> terms, other |-> otherTerms, added |-> n]
    ELSE LET t == otherTerms[i]
             key == Key(t)
         IN IF key \notin existing
            THEN MergeLoopMiscount(Append(terms, t), otherTerms, existing \cup {key}, i + 1, n + 1)
            ELSE MergeLoopMiscount(terms, otherTerms, existing, i + 1, n + 1)

RECURSIVE MergeLoop(_, _, _, _, _)
MergeLoop(terms, otherTerms, existing, i, n) ==
    IF i > Len(otherTerms)
    THEN [terms |-> terms, other |-> otherTerms, added |-> n]
    ELSE LET t == otherTerms[i]
             key == Key(t)
         IN IF key \notin existing
            THEN MergeLoop(Append(terms, t), otherTerms, existing \cup {key}, i + 1, n + 1)
            ELSE MergeLoop(terms, otherTerms, existing, i + 1, n)

\* Glossary.merge(self, other): the receiver's terms, other's terms and the
\* returned count after the call.
MergePrepend(selfTerms, otherTerms) ==
    LET r == MergeLoop(<<>>, otherTerms, Existing(selfTerms), 1, 0)
    IN [terms |-> r.terms \o selfTerms, other |-> r.other, added |-> r.added]
Merge(selfTerms, otherTerms) ==
    MergeLoop(selfTerms, otherTerms, Existing(selfTerms), 1, 0)

(***************************************************************************)
(* Consistency checker (consistency.py)                                    *)
(*                                                                         *)
(* A file is [path, exists, content, wellFormed, root]: content is the     *)
(* decoded text open().read() returns, root what etree.parse(path)         *)
(* .getroot() returns for a well-formed document: [hasLanguage, language,  *)
(* messages], each message a pair of child elements [present, text] for    *)
(* find("source") and find("translation") (text <<>> when .text is None).  *)
(* A result is [outcome, message, issues, opened, terms]: how the call     *)
(* ended ("returned" or the exception raised), the exception's message,    *)
(* the list returned, whether the file was opened, and glossary.terms      *)
(* after the call.                                                         *)
(***************************************************************************)
FoundLimit == 80

Issue(source, expected, found) ==
    [source |-> source, expected |-> expected, found |-> found]

Raised(exception, message, opened, terms) ==
    [outcome |-> exception, message |-> message, issues |-> <<>>,
     opened |-> opened, terms |-> terms]

Returned(list, terms) ==
    [outcome |-> "returned", message |-> <<>>, issues |-> list,
     opened |-> TRUE, terms |-> terms]

\* os.path.splitext(path)[1]
SplitExt(path) ==
    LET seps == {i \in 1..Len(path) : path[i] = "/"}
        sepIndex == IF seps = {} THEN 0 ELSE Max(seps)
        dots == {i \in 1..Len(path) : path[i] = "."}
        dotIndex == IF dots = {} THEN 0 ELSE Max(dots)
    IN IF /\ dotIndex > sepIndex
          /\ \E k \in (sepIndex + 1)..(dotIndex - 1) : path[k] # "."
       THEN SubSeq(path, dotIndex, Len(path))
       ELSE <<>>

\* Variant that gives every term a key of its own (sensitivity of C15)
SetDefaultAppendNoGroup(expected, key, term) ==
    Append(expected, [key |-> key, terms |-> <<term>>])
\* expected.setdefault(key, []).append(term); the dict keeps its keys in the
\* order of their first insertion
SetDefaultAppend(expected, key, term) ==
    IF \E j \in 1..Len(expected) : expected[j].key = key
    THEN LET j == CHOOSE j \in 1..Len(expected) : expected[j].key = key
         IN [expected EXCEPT ![j].terms = Append(@, term)]
    ELSE Append(expected, [key |-> key, terms |-> <<term>>])

\* s[:80]
Truncate81(s) == SubSeq(s, 1, Min({FoundLimit + 1, Len(s)}))
Truncate(s) == SubSeq(s, 1, Min({FoundLimit, Len(s)}))

(* ------------------------------ _check_po ------------------------------ *)

\* re.search(r'Language:\s*(\S+)', content): group(1) of the first match, or ""
PoLanguage(content) ==
    LET field == Str("Language:")
        tokenStart(p) == SkipWhile(content, p + Len(field), Whitespace)
        starts == {p \in 1..Len(content) :
                      /\ StartsWithAt(content, p, field)
                      /\ tokenStart(p) <= Len(content)}
    IN IF starts = {} THEN <<>>
       ELSE LET first == tokenStart(Min(starts))
            IN SubSeq(content, first, SkipUntil(content, first, Whitespace) - 1)

\* if not lang or term.language == lang or not term.language
PoApplicableSameLanguageOnly(term, lang) ==
    lang = <<>> \/ term.language = lang
PoApplicable(term, lang) ==
    lang = <<>> \/ term.language = lang \/ term.language = <<>>

\* The lookup built from glossary.terms[i..]
RECURSIVE PoExpectedFrom(_, _, _, _)
PoExpectedFrom(terms, i, lang, expected) ==
    IF i > Len(terms) THEN expected
    ELSE PoExpectedFrom(terms, i + 1, lang,
             IF PoApplicable(terms[i], lang)
             THEN SetDefaultAppend(expected, Lower(terms[i].source), terms[i])
             ELSE expected)

PoExpected(terms, lang) == PoExpectedFrom(terms, 1, lang, <<>>)

\* (?:[^"\\]|\\.)* from position k on: the position of the first character
\* the group does not match (. matches no newline)
RECURSIVE LiteralEnd(_, _)
LiteralEnd(content, k) ==
    LET stop == SkipUntil(content, k, {"\"", "\\"})
    IN IF stop > Len(content) THEN stop
       ELSE IF content[stop] = "\"" THEN stop
       ELSE IF stop + 1 <= Len(content) /\ content[stop + 1] # "\n"
            THEN LiteralEnd(content, stop + 2)
            ELSE stop

NoMatch == [ok |-> FALSE, text |-> <<>>, end |-> 0]

\* keyword\s+"((?:[^"\\]|\\.)*)" matched at position p: the group and the
\* position of the closing quote
KeywordLiteral(content, p, keyword) ==
    LET open == SkipWhile(content, p + Len(keyword), Whitespace)
        close == LiteralEnd(content, open + 1)
    IN IF /\ StartsWithAt(content, p, keyword)
          /\ open > p + Len(keyword)
          /\ open <= Len(content)
          /\ content[open] = "\""
          /\ close <= Len(content)
          /\ content[close] = "\""
       THEN [ok |-> TRUE, text |-> SubSeq(content, open + 1, close - 1), end |-> close]
       ELSE NoMatch

NoEntry == [ok |-> FALSE, msgid |-> <<>>, msgstr |-> <<>>, end |-> 0]

\* The whole pattern matched at position p.  After the msgid literal, \s*\n
\* takes the whitespace up to its last newline, (?:.*?\n)*? then skips as few
\* whole lines as possible, so msgstr is matched at the first line start
\* after that newline where msgstr\s+"..." matches.
EntryMatchAt(content, p) ==
    LET id == KeywordLiteral(content, p, Str("msgid"))
        spaceEnd == SkipWhile(content, id.end + 1, Whitespace)
        newlines == {n \in (id.end + 1)..(spaceEnd - 1) : content[n] = "\n"}
        lineStarts == {m \in (Max(newlines) + 1)..Len(content) : content[m - 1] = "\n"}
        found == {m \in lineStarts : KeywordLiteral(content, m, Str("msgstr")).ok}
    IN IF id.ok /\ newlines # {} /\ found # {}
       THEN LET str == KeywordLiteral(content, Min(found), Str("msgstr"))
            IN [ok |-> TRUE, msgid |-> id.text, msgstr |-> str.text, end |-> str.end]
       ELSE NoEntry

\* re.findall(pattern, content) from position p on: the (msgid, msgstr) groups
\* of the matches, left to right, not overlapping
RECURSIVE PoEntriesFrom(_, _)
PoEntriesFrom(content, p) ==
    LET starts == {k \in p..Len(content) : StartsWithAt(content, k, Str("msgid"))}
    IN IF starts = {} THEN <<>>
       ELSE LET m == EntryMatchAt(content, Min(starts))
            IN IF m.ok
               THEN <<[msgid |-> m.msgid, msgstr |-> m.msgstr]>>
                        \o PoEntriesFrom(content, m.end + 1)
               ELSE PoEntriesFrom(content, Min(starts) + 1)

PoEntries(content) == PoEntriesFrom(content, 1)

\* .replace('\\n', '\n').replace('\\"', '"')
Unescape(literal) ==
    Replace(Replace(literal, Str("\\n"), Str("\n")), Str("\\\""), Str("\""))

\* for term in term_list[i..]: the issues appended for one matching key
RECURSIVE PoTermIssues(_, _, _)
PoTermIssues(term_list, i, msgstr_clean) ==
    IF i > Len(term_list) THEN <<>>
    ELSE LET term == term_list[i]
         IN (IF /\ ~Contains(Lower(term.target), Lower(msgstr_clean))
                /\ term.target # <<>>
             THEN <<Issue(term.source, term.target, Truncate(msgstr_clean))>>
             ELSE <<>>)
            \o PoTermIssues(term_list, i + 1, msgstr_clean)

\* for term_key, term_list in expected.items(), from item j on
RECURSIVE PoKeyIssues(_, _, _, _)
PoKeyIssues(expected, j, msgid_clean, msgstr_clean) ==
    IF j > Len(expected) THEN <<>>
    ELSE (IF Contains(expected[j].key, Lower(msgid_clean))
          THEN PoTermIssues(expected[j].terms, 1, msgstr_clean)
          ELSE <<>>)
         \o PoKeyIssues(expected, j + 1, msgid_clean, msgstr_clean)

\* Variant that skips only entries with an empty msgid (sensitivity of C11)
RECURSIVE PoIssuesFromKeepUntranslated(_, _, _)
PoIssuesFromKeepUntranslated(expected, entries, e) ==
    IF e > Len(entries) THEN <<>>
    ELSE (IF entries[e].msgid = <<>>
          THEN <<>>
          ELSE PoKeyIssues(expected, 1, Unescape(entries[e].msgid),
                           Unescape(entries[e].msgstr)))
         \o PoIssuesFromKeepUntranslated(expected, entries, e + 1)
\* for msgid, msgstr in entries, from entry e on
RECURSIVE PoIssuesFrom(_, _, _)
PoIssuesFrom(expected, entries, e) ==
    IF e > Len(entries) THEN <<>>
    ELSE (IF entries[e].msgid = <<>> \/ entries[e].msgstr = <<>>
          THEN <<>>
          ELSE PoKeyIssues(expected, 1, Unescape(entries[e].msgid),
                           Unescape(entries[e].msgstr)))
         \o PoIssuesFrom(expected, entries, e + 1)

\* Variant that lower-cases term.source in place while the lookup is built
\* (sensitivity of C14)
CheckPoLowering(terms, f) ==
    IF ~f.exists
    THEN Raised("OSError", f.path, TRUE, terms)
    ELSE LET lang == PoLanguage(f.content)
             expected == PoExpected(terms, lang)
             entries == PoEntries(f.content)
         IN Returned(PoIssuesFrom(expected, entries, 1),
                     [i \in 1..Len(terms) |->
                         [terms[i] EXCEPT !.source = Lower(terms[i].source)]])
\* _check_po(glossary, path)
CheckPo(terms, f) ==
    IF ~f.exists
    THEN Raised("OSError", f.path, TRUE, terms)
    ELSE LET lang == PoLanguage(f.content)
             expected == PoExpected(terms, lang)
             entries == PoEntries(f.content)
         IN Returned(PoIssuesFrom(expected, entries, 1), terms)

(* ------------------------------ _check_ts ------------------------------ *)

\* root.get("language", "")
TsLanguage(root) == IF root.hasLanguage THEN root.language ELSE <<>>

\* if not lang or term.language == lang or not term.language
TsApplicableSameLanguageOnly(term, lang) ==
    lang = <<>> \/ term.language = lang
TsApplicable(term, lang) ==
    lang = <<>> \/ term.language = lang \/ term.language = <<>>

RECURSIVE TsExpectedFrom(_, _, _, _)
TsExpectedFrom(terms, i, lang, expected) ==
    IF i > Len(terms) THEN expected
    ELSE TsExpectedFrom(terms, i + 1, lang,
             IF TsApplicable(terms[i], lang)
             THEN SetDefaultAppend(expected, Lower(terms[i].source), terms[i])
             ELSE expected)

TsExpected(terms, lang) == TsExpectedFrom(terms, 1, lang, <<>>)

RECURSIVE TsTermIssues(_, _, _)
TsTermIssues(term_list, i, translation) ==
    IF i > Len(term_list) THEN <<>>
    ELSE LET term == term_list[i]
         IN (IF /\ ~Contains(Lower(term.target), Lower(translation))
                /\ term.target # <<>>
             THEN <<Issue(term.source, term.target, Truncate(translation))>>
             ELSE <<>>)
            \o TsTermIssues(term_list, i + 1, translation)

\* Variant that looks the key up in the source text as written, not in lower
\* case (sensitivity of C16)
RECURSIVE TsKeyIssuesCaseSensitive(_, _, _, _)
TsKeyIssuesCaseSensitive(expected, j, source, translation) ==
    IF j > Len(expected) THEN <<>>
    ELSE (IF Contains(expected[j].key, source)
          THEN TsTermIssues(expected[j].terms, 1, translation)
          ELSE <<>>)
         \o TsKeyIssuesCaseSensitive(expected, j + 1, source, translation)
RECURSIVE TsKeyIssues(_, _, _, _)
TsKeyIssues(expected, j, source, translation) ==
    IF j > Len(expected) THEN <<>>
    ELSE (IF Contains(expected[j].key, Lower(source))
          THEN TsTermIssues(expected[j].terms, 1, translation)
          ELSE <<>>)
         \o TsKeyIssues(expected, j + 1, source, translation)

\* for message in root.findall(".//message"), from message m on
RECURSIVE TsIssuesFrom(_, _, _)
TsIssuesFrom(expected, messages, m) ==
    IF m > Len(messages) THEN <<>>
    ELSE LET source_el == messages[m].source
             trans_el == messages[m].translation
             source == Strip(source_el.text)
             translation == Strip(trans_el.text)
         IN (IF ~source_el.present \/ ~trans_el.present
             THEN <<>>
             ELSE IF source = <<>> \/ translation = <<>>
             THEN <<>>
             ELSE TsKeyIssues(expected, 1, source, translation))
            \o TsIssuesFrom(expected, messages, m + 1)

\* Variant in which malformed markup is swallowed and yields
\* an empty list (sensitivity of C13)
CheckTsLenient(terms, f) ==
    IF ~f.exists
    THEN Raised("OSError", f.path, TRUE, terms)
    ELSE IF ~f.wellFormed
    THEN Returned(<<>>, terms)
    ELSE LET lang == TsLanguage(f.root)
             expected == TsExpected(terms, lang)
         IN Returned(TsIssuesFrom(expected, f.root.messages, 1), terms)
\* _check_ts(glossary, path)
CheckTs(terms, f) ==
    IF ~f.exists
    THEN Raised("OSError", f.path, TRUE, terms)
    ELSE IF ~f.wellFormed
    THEN Raised("XMLSyntaxError", f.path, TRUE, terms)
    ELSE LET lang == TsLanguage(f.root)
             expected == TsExpected(terms, lang)
         IN Returned(TsIssuesFrom(expected, f.root.messages, 1), terms)

\* Variant that looks for the file before it looks at the extension
\* (sensitivity of C12)
CheckConsistencyOpensFirst(terms, f) ==
    LET ext == Lower(SplitExt(f.path))
    IN IF ~f.exists THEN Raised("OSError", f.path, TRUE, terms)
       ELSE IF ext = Str(".po") THEN CheckPo(terms, f)
       ELSE IF ext = Str(".ts") THEN CheckTs(terms, f)
       ELSE Raised("ValueError", Str("Unsupported file format: ") \o ext, TRUE, terms)
\* check_consistency(glossary, path)
CheckConsistency(terms, f) ==
    LET ext == Lower(SplitExt(f.path))
    IN IF ext = Str(".po") THEN CheckPo(terms, f)
       ELSE IF ext = Str(".ts") THEN CheckTs(terms, f)
       ELSE Raised("ValueError", Str("Unsupported file format: ") \o ext, FALSE, terms)

(***************************************************************************)
(* Inputs of the window handlers                                           *)
(***************************************************************************)
MaxTerms == 2   \* longest term list the handlers are run on (besides the sample list)
MaxOther == 2   \* longest term list a loaded or imported file holds

\* The sample terms GlossaryWindow.__init__ appends
SampleTerms ==
    << Term(Str("Hello"), Str("Hej"), Str("sv"), Str(""), Str("Common greeting")),
       Term(Str("File"), Str("Fil"), Str("sv"), Str("menu"), Str("Menu item")),
       Term(Str("Save"), Str("Spara"), Str("sv"), Str("action"), Str("")),
       Term(Str("Open"), Str("Oppna"), Str("sv"), Str("action"), Str("")),
       Term(Str("Error"), Str("Fel"), Str("sv"), Str("dialog"), Str("Error message title")) >>

\* Terms a user types or a file holds: one base term and terms that differ
\* from it in exactly one field (or only in the case of the source).
TX == Term(Str("x"), Str("y"), Str("en"), Str(""), Str(""))
TXContext == Term(Str("x"), Str("y"), Str("en"), Str("menu"), Str(""))
TXComment == Term(Str("x"), Str("y"), Str("en"), Str(""), Str("note"))
TXTarget == Term(Str("x"), Str("z"), Str("en"), Str(""), Str(""))
TXLanguage == Term(Str("x"), Str("y"), Str("sv"), Str(""), Str(""))
TXUpper == Term(Str("X"), Str("y"), Str("en"), Str(""), Str(""))

TermInputs == {TX, TXContext, TXComment, TXTarget, TXLanguage, TXUpper}

RECURSIVE SeqsUpTo(_, _)
SeqsUpTo(S, n) ==
    IF n = 0 THEN {<<>>}
    ELSE LET shorter == SeqsUpTo(S, n - 1)
         IN shorter \cup {Append(s, x) : s \in shorter, x \in S}

\* What load_glossary returns for the file of a merge
LoadedTermLists == SeqsUpTo(TermInputs, MaxOther)

\* What the term dialog's five entry rows hold when Save is clicked
TypedTerms == TermInputs

\* What import_po_terms / import_ts_terms return for the file of an import
ImportedTermLists == SeqsUpTo({TX, TXTarget, TXLanguage}, MaxOther)

(***************************************************************************)
(* Inputs of the consistency check                                         *)
(***************************************************************************)
MaxCheckTerms == 2   \* longest term list a file is checked against

NoRoot == [hasLanguage |-> FALSE, language |-> <<>>, messages |-> <<>>]
NoFile == [path |-> <<>>, exists |-> FALSE, content |-> <<>>,
           wellFormed |-> FALSE, root |-> NoRoot]
NoResult == [outcome |-> "none", message |-> <<>>, issues |-> <<>>,
             opened |-> FALSE, terms |-> <<>>]

\* Glossary terms the files are checked against
CFile == Term(Str("File"), Str("Fil"), Str(""), Str(""), Str(""))
CFileSv == Term(Str("File"), Str("Fil"), Str("sv"), Str("menu"), Str(""))
CFileLower == Term(Str("file"), Str("Arkiv"), Str(""), Str(""), Str(""))
COpenDe == Term(Str("Open"), Str("Offnen"), Str("de"), Str(""), Str(""))
CFileNoTarget == Term(Str("File"), Str(""), Str(""), Str(""), Str("no approved translation"))
CEmptySource == Term(Str(""), Str("Fil"), Str(""), Str(""), Str(""))

CheckTerms == {CFile, CFileSv, CFileLower, COpenDe, CFileNoTarget, CEmptySource}

CheckGlossaries == SeqsUpTo(CheckTerms, MaxCheckTerms)

\* Glossaries of three terms in which two sources differ only in case and a
\* term with another source stands between them
OrderGlossaries == {<<CFile, COpenDe, CFileLower>>, <<CFileSv, COpenDe, CFileLower>>}

\* A translation of n characters
LongText(n) == [i \in 1..n |-> Str("Oppna abcd")[((i - 1) % 10) + 1]]

Pair(source, translation) == [source |-> source, translation |-> translation]

\* (source text, translated text) pairs the files hold, in document order
MismatchText == <<Pair(Str("Open File"), Str("Oppna Dokument"))>>
LongTexts == <<Pair(Str("Save"), Str("Spara")),
               Pair(Str("Open File"), LongText(FoundLimit + 1))>>
TwoMismatchTexts == <<Pair(Str("Open File"), Str("Oppna Dokument")),
                      Pair(Str("File"), Str("Akte"))>>

Texts ==
    { MismatchText,
      <<Pair(Str("Open File"), Str("Oppna Fil"))>>,
      <<Pair(Str("Profile"), Str("Konto"))>>,
      LongTexts,
      TwoMismatchTexts,
      <<Pair(Str("Open File"), Str("")),
        Pair(Str("New File"), LongText(FoundLimit))>> }

\* The .po text of one catalog entry
PoEntryText(pair) ==
    Str("msgid \"") \o pair.source \o Str("\"\nmsgstr \"") \o pair.translation
        \o Str("\"\n\n")

RECURSIVE PoBody(_, _)
PoBody(pairs, i) ==
    IF i > Len(pairs) THEN <<>> ELSE PoEntryText(pairs[i]) \o PoBody(pairs, i + 1)

\* Catalog headers: without a Language field, with the field as msgfmt and
\* the editors write it (a quoted header line ending in backslash, n, quote),
\* and with the field on a comment line of its own
PlainHeader ==
    Str("msgid \"\"\nmsgstr \"\"\n\"Content-Type: text/plain; charset=UTF-8\\n\"\n\n")

StandardHeader(lang) ==
    Str("msgid \"\"\nmsgstr \"\"\n\"Language: ") \o lang \o Str("\\n\"\n\n")

CommentHeader(lang) ==
    Str("# Language: ") \o lang \o Str("\nmsgid \"\"\nmsgstr \"\"\n\n")

Languages == {Str("sv"), Str("de")}

PoFile(header, pairs) ==
    [path |-> Str("sv/app.po"), exists |-> TRUE, content |-> header \o PoBody(pairs, 1),
     wellFormed |-> FALSE, root |-> NoRoot]

\* A catalog whose literals hold escape sequences: backslash-quote,
\* backslash-n, backslash-t and an escaped backslash before the letter n
EscapedPo ==
    PoFile(PlainHeader,
           <<Pair(Str("Open \\\"File\\\"\\n"), Str("Oppna\\t\\\"Dokument\\\"\\n")),
             Pair(Str("Open File"), Str("Oppna C:\\\\nya"))>>)

\* A catalog with a plural entry (msgid_plural, msgstr[n]) followed by an
\* entry with a context line and a comment line
PluralPo ==
    [path |-> Str("sv/app.po"), exists |-> TRUE,
     content |-> PlainHeader
         \o Str("#, c-format\nmsgid \"One File\"\nmsgid_plural \"%d Files\"\n")
         \o Str("msgstr[0] \"En Fil\"\nmsgstr[1] \"%d Filer\"\n\n")
         \o Str("#: main.c:1\nmsgctxt \"menu\"\nmsgid \"Open\"\nmsgstr \"Oppna\"\n\n"),
     wellFormed |-> FALSE, root |-> NoRoot]

PoFiles ==
    {PoFile(PlainHeader, pairs) : pairs \in Texts}
    \cup {EscapedPo, PluralPo}
    \cup {PoFile(StandardHeader(lang), pairs) :
            lang \in Languages, pairs \in {MismatchText, LongTexts}}
    \cup {PoFile(CommentHeader(lang), pairs) :
            lang \in Languages, pairs \in {MismatchText, LongTexts}}

Element(text) == [present |-> TRUE, text |-> text]
NoElement == [present |-> FALSE, text |-> <<>>]

\* The message elements of a .ts document holding the pairs, the texts
\* indented as lupdate writes them when `padded`
TsMessages(pairs, padded) ==
    [i \in 1..Len(pairs) |->
        [source |-> Element(IF padded THEN Str(" ") \o pairs[i].source \o Str("\n  ")
                            ELSE pairs[i].source),
         translation |-> Element(IF padded THEN Str("\n\t") \o pairs[i].translation \o Str(" ")
                                 ELSE pairs[i].translation)]]

TsRoots ==
    {[hasLanguage |-> FALSE, language |-> <<>>, messages |-> TsMessages(pairs, FALSE)] :
        pairs \in Texts}
    \cup {[hasLanguage |-> TRUE, language |-> lang, messages |-> TsMessages(pairs, TRUE)] :
            lang \in Languages, pairs \in {MismatchText, LongTexts}}
    \cup {[hasLanguage |-> TRUE, language |-> Str("sv"),
           messages |-> <<[source |-> Element(Str("Open File")), translation |-> NoElement],
                          [source |-> NoElement, translation |-> Element(Str("Arkiv"))],
                          [source |-> Element(Str("New File")),
                           translation |-> Element(Str(" \n\t"))],
                          [source |-> Element(Str("  ")),
                           translation |-> Element(Str("Fil"))],
                          [source |-> Element(Str("Profile")),
                           translation |-> Element(Str("Konto"))]>>]}

TsFile(root) ==
    [path |-> Str("app_sv.ts"), exists |-> TRUE, content |-> <<>>,
     wellFormed |-> TRUE, root |-> root]

TsFiles == {TsFile(root) : root \in TsRoots}

\* Files that cannot be read or parsed, and paths with other extensions
OtherFiles ==
    { [path |-> Str("gone.po"), exists |-> FALSE, content |-> <<>>,
       wellFormed |-> FALSE, root |-> NoRoot],
      [path |-> Str("gone.ts"), exists |-> FALSE, content |-> <<>>,
       wellFormed |-> FALSE, root |-> NoRoot],
      [path |-> Str("broken.ts"), exists |-> TRUE, content |-> Str("<TS><message></TS>"),
       wellFormed |-> FALSE, root |-> NoRoot],
      [path |-> Str("APP.PO"), exists |-> TRUE,
       content |-> Str("msgid \"Open File\"\nmsgstr \"Oppna Dokument\"\n"),
       wellFormed |-> FALSE, root |-> NoRoot],
      [path |-> Str("file.txt"), exists |-> FALSE, content |-> <<>>,
       wellFormed |-> FALSE, root |-> NoRoot],
      [path |-> Str("file.txt"), exists |-> TRUE,
       content |-> Str("msgid \"Open File\"\nmsgstr \"Oppna Dokument\"\n"),
       wellFormed |-> FALSE, root |-> NoRoot],
      [path |-> Str("NOTES.TXT"), exists |-> FALSE, content |-> <<>>,
       wellFormed |-> FALSE, root |-> NoRoot],
      [path |-> Str("po.d/README"), exists |-> TRUE, content |-> Str("msgid"),
       wellFormed |-> FALSE, root |-> NoRoot],
      [path |-> Str(".po"), exists |-> TRUE, content |-> Str("msgid"),
       wellFormed |-> FALSE, root |-> NoRoot] }

CheckFiles == PoFiles \cup TsFiles \cup OtherFiles

(***************************************************************************)
(* Window handlers (main.py)                                               *)
(***************************************************************************)
\* The term lists the handlers are explored on: the list of construction and
\* every list of at most MaxTerms terms.
Explored(terms) == Len(terms) <= MaxTerms \/ terms = SampleTerms

\* An Adw.AlertDialog presented on the window keeps the window's handlers
\* from running until it is answered.
Idle == dialog = <<"none">>

NoCheck == /\ file' = NoFile
           /\ result' = NoResult

NoMerge == /\ other' = <<>>
           /\ otherLoaded' = <<>>
           /\ before' = <<>>
           /\ added' = 0

\* list.index(term): the first position holding an equal term
IndexOf(terms, term) == CHOOSE i \in 1..Len(terms) :
    terms[i] = term /\ \A j \in 1..(i - 1) : terms[j] # term

\* list.remove(term): drops the first equal term
Remove(terms, term) ==
    LET idx == IndexOf(terms, term)
    IN [j \in 1..(Len(terms) - 1) |-> IF j < idx THEN terms[j] ELSE terms[j + 1]]

\* _show_term_dialog.on_save with term None: append the new term
AddTerm(new_term) ==
    /\ Idle
    /\ Len(glossary) < MaxTerms
    /\ glossary' = Append(glossary, new_term)
    /\ UNCHANGED dialog
    /\ NoMerge
    /\ NoCheck

\* _show_term_dialog.on_save on the term of row `row`
EditTerm(row, new_term) ==
    /\ Idle
    /\ Explored(glossary)
    /\ row \in 1..Len(glossary)
    /\ LET idx == IndexOf(glossary, glossary[row])
       IN glossary' = [glossary EXCEPT ![idx] = new_term]
    /\ UNCHANGED dialog
    /\ NoMerge
    /\ NoCheck

\* _show_term_dialog.on_delete on the term of row `row`
DeleteTerm(row) ==
    /\ Idle
    /\ Explored(glossary)
    /\ row \in 1..Len(glossary)
    /\ glossary' = Remove(glossary, glossary[row])
    /\ UNCHANGED dialog
    /\ NoMerge
    /\ NoCheck

\* _on_new
New ==
    /\ Idle
    /\ glossary' = <<>>
    /\ UNCHANGED dialog
    /\ NoMerge
    /\ NoCheck

\* _on_import_response: terms is what import_po_terms / import_ts_terms returned
ImportResponse(terms) ==
    /\ Idle
    /\ Len(glossary) + Len(terms) <= MaxTerms
    /\ glossary' = glossary \o terms
    /\ dialog' = <<"imported", Len(terms)>>
    /\ NoMerge
    /\ NoCheck

\* _on_merge_response: loaded is what load_glossary returned
MergeResponse(loaded) ==
    /\ Idle
    /\ Explored(glossary)
    /\ LET r == Merge(glossary, loaded)
       IN /\ glossary' = r.terms
          /\ other' = r.other
          /\ added' = r.added
          /\ dialog' = <<"merged", r.added>>
    /\ otherLoaded' = loaded
    /\ before' = glossary
    /\ NoCheck

\* _on_check_response: f is the file the user chose
CheckResponse(f) ==
    /\ Idle
    /\ result' = CheckConsistency(glossary, f)
    /\ glossary' = result'.terms
    /\ dialog' = IF result'.outcome # "returned" THEN <<"error">>
                 ELSE IF result'.issues = <<>> THEN <<"info">>
                 ELSE <<"issues">>
    /\ file' = f
    /\ NoMerge

\* The dialog that _show_info, _show_error or _show_consistency_results
\* presented is answered: the locals of the handler that presented it are gone.
DialogClosed ==
    /\ ~Idle
    /\ dialog' = <<"none">>
    /\ UNCHANGED glossary
    /\ NoMerge
    /\ NoCheck

Init ==
    /\ glossary = SampleTerms
    /\ other = <<>>
    /\ otherLoaded = <<>>
    /\ before = <<>>
    /\ added = 0
    /\ dialog = <<"none">>
    /\ file = NoFile
    /\ result = NoResult

Next ==
    \/ \E t \in TypedTerms : AddTerm(t)
    \/ \E row \in 1..Len(glossary), t \in TypedTerms : EditTerm(row, t)
    \/ \E row \in 1..Len(glossary) : DeleteTerm(row)
    \/ New
    \/ \E terms \in ImportedTermLists : ImportResponse(terms)
    \/ \E loaded \in LoadedTermLists : MergeResponse(loaded)
    \/ DialogClosed

Spec == Init /\ [][Next]_vars

\* The consistency check on its own: the window holds the sample glossary or a
\* glossary of CheckGlossaries or OrderGlossaries, and any file of CheckFiles is
\* checked against it.
InitCheck ==
    /\ glossary \in CheckGlossaries \cup OrderGlossaries \cup {SampleTerms}
    /\ other = <<>>
    /\ otherLoaded = <<>>
    /\ before = <<>>
    /\ added = 0
    /\ dialog = <<"none">>
    /\ file = NoFile
    /\ result = NoResult

NextCheck ==
    \/ \E f \in CheckFiles : CheckResponse(f)
    \/ DialogClosed

SpecCheck == InitCheck /\ [][NextCheck]_vars

(***************************************************************************)
(* Claims about Glossary.merge, checked under Spec                         *)
(***************************************************************************)
\* The merge whose result the alert dialog shows has just run
Merged == dialog[1] = "merged"

SameTriple(s, t) ==
    /\ s.source = t.source
    /\ s.target = t.target
    /\ s.language = t.language

\* No two positions of terms hold the same (source, target, language)
NoSharedTriple(terms) ==
    \A i, j \in 1..Len(terms) : i # j => ~SameTriple(terms[i], terms[j])

\* The positions of b whose triple occurs neither in a nor earlier in b
NewPositions(a, b) ==
    {i \in 1..Len(b) :
        /\ \A k \in 1..Len(a) : ~SameTriple(a[k], b[i])
        /\ \A j \in 1..(i - 1) : ~SameTriple(b[j], b[i])}

\* The terms of b at the positions pos, in b's order
TermsAt(b, pos) ==
    LET nth(k) == CHOOSE i \in pos : Cardinality({j \in pos : j < i}) = k - 1
    IN [k \in 1..Cardinality(pos) |-> b[nth(k)]]

\* C1: after A.merge(B), a second A.merge(B) returns 0 and leaves A.terms
\* exactly as the first call left it.
C1_MergeIdempotent ==
    Merged =>
        LET again == Merge(glossary, other)
        IN /\ again.added = 0
           /\ again.terms = glossary
           /\ Len(again.terms) = Len(glossary)

\* A first merge that appended two terms
C1_Witness == Merged /\ added = 2 /\ Merge(glossary, other).added = 0

\* C2: after a.merge(b), a.terms is the previous a.terms followed by exactly
\* the terms of b whose triple occurs neither in the previous a.terms nor
\* earlier in b.terms, in b's order.
C2_MergeIsDedupUnion ==
    Merged =>
        glossary = before \o TermsAt(otherLoaded, NewPositions(before, otherLoaded))

\* The example: a = [(x,y,en)], b = [(x,y,en),(x,z,en)] gives
\* a = [(x,y,en),(x,z,en)] and the count 1
C2_Witness ==
    /\ Merged
    /\ before = <<TX>>
    /\ otherLoaded = <<TX, TXTarget>>
    /\ glossary = <<TX, TXTarget>>
    /\ added = 1

\* C3 as stated: after a merge no two terms of the receiver share the triple,
\* whatever add, edit, import and merge did before.
C3_NoSharedTripleAfterMerge == Merged => NoSharedTriple(glossary)

\* C3 as amended: a merge appends no term whose triple the receiver already
\* holds, so two terms that share a triple after the merge were both in the
\* receiver before it; a receiver without shared triples stays without.
C3_MergeAddsNoSharedTriple ==
    Merged =>
        /\ \A i, j \in 1..Len(glossary) :
               (i < j /\ SameTriple(glossary[i], glossary[j])) => j <= Len(before)
        /\ NoSharedTriple(before) => NoSharedTriple(glossary)

\* A merge into a receiver that held the same triple twice appends a term
C3_Witness == Merged /\ ~NoSharedTriple(before) /\ added > 0

\* C4: the returned integer is the number of terms appended by the call, and
\* the number of distinct triples of other the receiver did not hold.
C4_MergeReturnsAppendedCount ==
    Merged =>
        /\ added = Len(glossary) - Len(before)
        /\ added = Cardinality(
               {<<t.source, t.target, t.language>> : t \in Range(otherLoaded)}
               \ {<<t.source, t.target, t.language>> : t \in Range(before)})
        /\ dialog[2] = added

\* A merge that appended some and dropped some of other's terms
C4_Witness == Merged /\ added > 0 /\ added < Len(otherLoaded)

\* C5: merge has no effect on other: same length, same elements, same order,
\* every field of every term unchanged.
C5_MergeLeavesOtherUnchanged ==
    Merged =>
        /\ Len(other) = Len(otherLoaded)
        /\ \A i \in 1..Len(otherLoaded) :
               /\ i \in DOMAIN other
               /\ other[i].source = otherLoaded[i].source
               /\ other[i].target = otherLoaded[i].target
               /\ other[i].language = otherLoaded[i].language
               /\ other[i].context = otherLoaded[i].context
               /\ other[i].comment = otherLoaded[i].comment

\* A merge that appended every term of a two-term other
C5_Witness == Merged /\ Len(otherLoaded) = 2 /\ added = 2 /\ other = otherLoaded

\* C6: a term of other that differs from an existing term only in context
\* and/or comment is dropped and the existing term kept; a term that differs
\* from every existing term in source (also only in case), target or language
\* is appended, and the existing terms are retained.
C6_MergeKeyIsTriple ==
    Merged =>
        /\ SubSeq(glossary, 1, Len(before)) = before
        /\ \A i \in 1..Len(otherLoaded) :
               LET t == otherLoaded[i]
                   appended == {p \in (Len(before) + 1)..Len(glossary) :
                                   SameTriple(glossary[p], t)}
               IN IF \E k \in 1..Len(before) : SameTriple(before[k], t)
                  THEN appended = {}
                  ELSE /\ Cardinality(appended) = 1
                       /\ \A p \in appended : glossary[p] \in Range(otherLoaded)

\* The receiver holds (x,y,en); other holds the same triple with a context
\* and the triple with source X: the first is dropped, the second appended
C6_Witness ==
    /\ Merged
    /\ before = <<TX>>
    /\ otherLoaded = <<TXContext, TXUpper>>
    /\ glossary = <<TX, TXUpper>>

(***************************************************************************)
(* Claims about check_consistency, checked under SpecCheck                 *)
(***************************************************************************)
\* check_consistency has returned a list for `file`
Checked == result.outcome = "returned"

IsPo(f) == Lower(SplitExt(f.path)) = Str(".po")

\* The language the checker detected for the checked document
DocLanguage ==
    IF IsPo(file) THEN PoLanguage(file.content) ELSE TsLanguage(file.root)

\* a is a substring of b / a prefix of b
IsSubstring(a, b) ==
    \E i \in 0..(Len(b) - Len(a)) : \A j \in 1..Len(a) : b[i + j] = a[j]

IsPrefix(a, b) == Len(a) <= Len(b) /\ \A j \in 1..Len(a) : b[j] = a[j]

\* The entries of the checked document that are not skipped: the source text
\* and the translated text (unescaped for .po, trimmed for .ts)
DocEntries ==
    IF IsPo(file)
    THEN LET entries == PoEntries(file.content)
             kept == SelectSeq(entries, LAMBDA e : e.msgid # <<>> /\ e.msgstr # <<>>)
         IN [i \in 1..Len(kept) |->
                Pair(Unescape(kept[i].msgid), Unescape(kept[i].msgstr))]
    ELSE LET kept == SelectSeq(file.root.messages,
                               LAMBDA m : /\ m.source.present
                                          /\ m.translation.present
                                          /\ Strip(m.source.text) # <<>>
                                          /\ Strip(m.translation.text) # <<>>)
         IN [i \in 1..Len(kept) |->
                Pair(Strip(kept[i].source.text), Strip(kept[i].translation.text))]

\* The term's language is empty, or the document's, or the document has none
LanguageApplies(term, lang) ==
    term.language = <<>> \/ term.language = lang \/ lang = <<>>

\* The term's source occurs in the entry's source and its non-empty target
\* does not occur in the entry's translation, both compared in lower case
Mismatch(entry, term) ==
    /\ IsSubstring(Lower(term.source), Lower(entry.source))
    /\ term.target # <<>>
    /\ ~IsSubstring(Lower(term.target), Lower(entry.translation))

\* The (entry, term) pairs, by position, an issue is due for when the
\* document holds `entries` and its language is lang
Due(entries, lang) ==
    {p \in (1..Len(entries)) \X (1..Len(glossary)) :
        /\ LanguageApplies(glossary[p[2]], lang)
        /\ Mismatch(entries[p[1]], glossary[p[2]])}

IssueFor(entries, p) ==
    LET translation == entries[p[1]].translation
    IN [source |-> glossary[p[2]].source,
        expected |-> glossary[p[2]].target,
        found |-> [j \in 1..(IF Len(translation) > FoundLimit THEN FoundLimit
                             ELSE Len(translation)) |-> translation[j]]]

Count(seq, v) == Cardinality({i \in 1..Len(seq) : seq[i] = v})

\* C7: in _check_po and in _check_ts a term is considered for matching if and
\* only if its language is empty, or equals the document's detected language,
\* or that language is empty: every issue comes from such a term, every such
\* term that mismatches an entry yields its issue, and no other term adds one.
C7_LanguageScoping ==
    Checked =>
        LET lang == DocLanguage
            entries == DocEntries
            due == Due(entries, lang)
        IN /\ \A i \in 1..Len(result.issues) :
                  \E k \in 1..Len(glossary) :
                      /\ glossary[k].source = result.issues[i].source
                      /\ glossary[k].target = result.issues[i].expected
                      /\ LanguageApplies(glossary[k], lang)
           /\ \A p \in due : IssueFor(entries, p) \in Range(result.issues)
           /\ Len(result.issues) = Cardinality(due)

\* A document detected as "de" checked against an "sv" term and a term
\* without language that both mismatch it: only the second is reported
C7_Witness ==
    /\ Checked
    /\ glossary = <<CFileSv, CFileLower>>
    /\ DocLanguage = Str("de")
    /\ \E e \in 1..Len(DocEntries) : Mismatch(DocEntries[e], CFileSv)
    /\ Len(result.issues) = 1
    /\ result.issues[1].source = CFileLower.source

\* The .po content holds the header line "Language: <lang>\n" as the catalog
\* format writes it: quote, field, space, tag, backslash, n, quote
HasStandardHeader(content, lang) ==
    IsSubstring(Str("\n\"Language: ") \o lang \o Str("\\n\"\n"), content)

\* C8: for a .po file whose header declares "Language: sv\n" the detected
\* language is sv, so the terms with language sv (or none) are applied and
\* those with language de are not; without any Language: field the detected
\* language is empty and every term is applied.
C8_PoHeaderLanguage ==
    (Checked /\ IsPo(file)) =>
        LET entries == DocEntries
        IN /\ HasStandardHeader(file.content, Str("sv")) =>
                  Len(result.issues) = Cardinality(Due(entries, Str("sv")))
           /\ ~IsSubstring(Str("Language:"), file.content) =>
                  Len(result.issues) = Cardinality(Due(entries, <<>>))

\* C9: for every entry that is not skipped and every language-applicable term
\* whose lower-cased source is a substring of the entry's lower-cased source,
\* exactly one issue is emitted when the term's target is not empty and its
\* lower-cased target is no substring of the lower-cased translation, and
\* none otherwise; no other issue is emitted.
C9_IssueEmission ==
    Checked =>
        LET entries == DocEntries
            due == Due(entries, DocLanguage)
            dueIssues == {IssueFor(entries, p) : p \in due}
        IN /\ Len(result.issues) = Cardinality(due)
           /\ \A v \in Range(result.issues) \cup dueIssues :
                  Count(result.issues, v)
                      = Cardinality({p \in due : IssueFor(entries, p) = v})

\* Term (File, Fil, "") against "Open File" / "Oppna Dokument": one issue
C9_Witness ==
    /\ Checked
    /\ glossary = <<CFile>>
    /\ DocEntries = MismatchText
    /\ result.issues = <<Issue(Str("File"), Str("Fil"), Str("Oppna Dokument"))>>

\* C10: every issue's found has at most 80 characters and is a prefix of the
\* translation of an entry its term mismatches: the whole translation when
\* that has 80 characters or fewer, exactly 80 characters when it is longer;
\* source and expected are the term's source and target as written.
C10_FoundTruncated ==
    Checked =>
        LET entries == DocEntries
            due == Due(entries, DocLanguage)
        IN \A i \in 1..Len(result.issues) :
               LET issue == result.issues[i]
               IN /\ Len(issue.found) <= FoundLimit
                  /\ \E p \in due :
                         LET translation == entries[p[1]].translation
                         IN /\ IsPrefix(issue.found, translation)
                            /\ Len(translation) <= FoundLimit => issue.found = translation
                            /\ Len(translation) > FoundLimit => Len(issue.found) = FoundLimit
                            /\ issue.source = glossary[p[2]].source
                            /\ issue.expected = glossary[p[2]].target

\* An issue for a translation of 81 characters: found holds its first 80
C10_Witness ==
    /\ Checked
    /\ result.issues # <<>>
    /\ LET entries == DocEntries
       IN \E i \in 1..Len(result.issues), e \in 1..Len(entries) :
              /\ Len(entries[e].translation) = FoundLimit + 1
              /\ Len(result.issues[i].found) = FoundLimit
              /\ IsPrefix(result.issues[i].found, entries[e].translation)
              /\ result.issues[i].found[1] = "O"

\* A .po entry as extracted is incomplete when one of its literals is empty
PoIncomplete(entry) == entry.msgid = <<>> \/ entry.msgstr = <<>>

\* A .ts message is incomplete when a child is absent or its text is empty
\* after trimming
TsIncomplete(message) ==
    \/ ~message.source.present
    \/ ~message.translation.present
    \/ \A i \in 1..Len(message.source.text) : message.source.text[i] \in Whitespace
    \/ \A i \in 1..Len(message.translation.text) :
           message.translation.text[i] \in Whitespace

\* C11: incomplete entries contribute no issue, whatever the glossary holds:
\* the returned list is the list the same glossary gives for the document
\* without its incomplete entries, and it is empty when every entry is
\* incomplete.
C11_IncompleteEntriesSkipped ==
    Checked =>
        IF IsPo(file)
        THEN LET entries == PoEntries(file.content)
                 complete == SelectSeq(entries, LAMBDA e : ~PoIncomplete(e))
                 expected == PoExpected(glossary, PoLanguage(file.content))
             IN /\ result.issues = PoIssuesFrom(expected, complete, 1)
                /\ complete = <<>> => result.issues = <<>>
        ELSE LET complete == SelectSeq(file.root.messages, LAMBDA m : ~TsIncomplete(m))
                 expected == TsExpected(glossary, TsLanguage(file.root))
             IN /\ result.issues = TsIssuesFrom(expected, complete, 1)
                /\ complete = <<>> => result.issues = <<>>

\* A catalog whose entry "Open File" has an empty msgstr, checked against a
\* term that matches it and a term with an empty source: only the complete
\* entry "New File" is reported
C11_Witness ==
    /\ Checked
    /\ IsPo(file)
    /\ glossary = <<CFile, CEmptySource>>
    /\ \E e \in 1..Len(PoEntries(file.content)) :
           /\ PoEntries(file.content)[e].msgid = Str("Open File")
           /\ PoEntries(file.content)[e].msgstr = <<>>
    /\ Len(result.issues) = 2
    /\ \A i \in 1..Len(result.issues) : result.issues[i].found = LongText(FoundLimit)

\* The call on `file` has ended, with a list or with an exception
Called == result.outcome # "none"

\* The lower-cased extension of the checked path
Extension == Lower(SplitExt(file.path))

Supported == Extension \in {Str(".po"), Str(".ts")}

\* C12: a path whose extension is neither .po nor .ts fails with the
\* unsupported-format error, whose message holds the (lower-cased) extension,
\* before the file is opened: the outcome depends on the path alone, so it is
\* the same for a file that exists and for one that does not.
C12_UnsupportedBeforeIO ==
    (Called /\ ~Supported) =>
        /\ result.outcome = "ValueError"
        /\ ~result.opened
        /\ result.message = Str("Unsupported file format: ") \o Extension
        /\ IsSubstring(Extension, result.message)
        /\ result.issues = <<>>
        /\ dialog = <<"error">>

\* file.txt does not exist: the error names .txt, and no open was attempted
C12_Witness ==
    /\ file.path = Str("file.txt")
    /\ ~file.exists
    /\ result.outcome = "ValueError"
    /\ result.message = Str("Unsupported file format: .txt")
    /\ ~result.opened

\* The file cannot be read, or its markup cannot be parsed
Unreadable ==
    ~file.exists \/ (Extension = Str(".ts") /\ ~file.wellFormed)

\* C13: when a .po or .ts file cannot be read or parsed, the call ends with
\* that error and the caller receives it: no list is returned, not even an
\* empty one, and a list is returned only for a file that could be read and
\* parsed.
C13_ErrorsPropagate ==
    (Called /\ Supported) =>
        /\ Unreadable =>
               /\ result.outcome = (IF ~file.exists THEN "OSError" ELSE "XMLSyntaxError")
               /\ result.opened
               /\ result.issues = <<>>
               /\ dialog = <<"error">>
        /\ Checked => ~Unreadable

\* broken.ts exists and is not well-formed: the parse error reaches the caller
C13_Witness ==
    /\ file.path = Str("broken.ts")
    /\ file.exists
    /\ glossary = <<CFile>>
    /\ result.outcome = "XMLSyntaxError"
    /\ dialog = <<"error">>

\* C14: no step of the check changes glossary.terms: the same terms, in the
\* same order, with the same fields, whether the call returned issues, an
\* empty list or raised.
C14_GlossaryOnlyRead == [][glossary' = glossary]_vars

\* A check that returned issues for a glossary of two terms
C14_Witness ==
    /\ Checked
    /\ result.issues # <<>>
    /\ glossary = <<CFileSv, CFileLower>>
    /\ result.terms = <<CFileSv, CFileLower>>

\* Two terms share a lookup key when their sources are equal in lower case
SameKey(k, j) == Lower(glossary[k].source) = Lower(glossary[j].source)

\* The position in glossary.terms at which the key of term k first occurs:
\* among all terms, and among the terms that apply to a document of lang
FirstOccurrence(k) == Min({j \in 1..Len(glossary) : SameKey(k, j)})

FirstApplicableOccurrence(k, lang) ==
    Min({j \in 1..Len(glossary) :
            SameKey(k, j) /\ LanguageApplies(glossary[j], lang)})

\* (entry, term) pair p is reported no later than q: by entry, then by the
\* rank of the term's key, then by the term's position
Precedes(p, q, rank) ==
    \/ p[1] < q[1]
    \/ p[1] = q[1] /\ rank[p[2]] < rank[q[2]]
    \/ p[1] = q[1] /\ rank[p[2]] = rank[q[2]] /\ p[2] <= q[2]

RECURSIVE InReportOrder(_, _)
InReportOrder(pairs, rank) ==
    IF pairs = {} THEN <<>>
    ELSE LET first == CHOOSE p \in pairs : \A q \in pairs : Precedes(p, q, rank)
         IN <<first>> \o InReportOrder(pairs \ {first}, rank)

\* The issues due for the checked document, in the order given by rank
IssuesInOrder(entries, due, rank) ==
    LET order == InReportOrder(due, rank)
    IN [i \in 1..Len(order) |-> IssueFor(entries, order[i])]

\* C15 as stated: issues are grouped by entry in document order; within an
\* entry they follow the first occurrence of the term's lower-cased source
\* in glossary.terms, and within one key the order of glossary.terms.
C15_OrderByFirstOccurrence ==
    Checked =>
        LET entries == DocEntries
            due == Due(entries, DocLanguage)
        IN result.issues
               = IssuesInOrder(entries, due,
                               [k \in 1..Len(glossary) |-> FirstOccurrence(k)])

\* C15 amended: within an entry the issues follow the first occurrence of the
\* term's lower-cased source among the terms that apply to the document's
\* language; a term left out by its language places no key.
C15_OrderByFirstApplicableOccurrence ==
    Checked =>
        LET entries == DocEntries
            lang == DocLanguage
            due == Due(entries, lang)
        IN result.issues
               = IssuesInOrder(entries, due,
                     [k \in 1..Len(glossary) |->
                         IF LanguageApplies(glossary[k], lang)
                         THEN FirstApplicableOccurrence(k, lang) ELSE 0])

\* Glossary [File, Open, file] against a document of two entries that both
\* hold "File": File, file, Open for the first entry, then File, file
C15_Witness ==
    /\ Checked
    /\ glossary = <<CFile, COpenDe, CFileLower>>
    /\ DocEntries = TwoMismatchTexts
    /\ [i \in 1..Len(result.issues) |-> result.issues[i].source]
           = <<Str("File"), Str("file"), Str("Open"), Str("File"), Str("file")>>
    /\ [i \in 1..Len(result.issues) |-> result.issues[i].found]
           = <<Str("Oppna Dokument"), Str("Oppna Dokument"), Str("Oppna Dokument"),
               Str("Akte"), Str("Akte")>>

\* The text has no surrounding whitespace
Trimmed(text) ==
    text = <<>> \/ (text[1] \notin Whitespace /\ text[Len(text)] \notin Whitespace)

\* The .ts document of language lang whose messages hold the entries
AsTs(entries, lang) ==
    TsFile([hasLanguage |-> lang # <<>>, language |-> lang,
            messages |-> [i \in 1..Len(entries) |->
                             [source |-> Element(entries[i].source),
                              translation |-> Element(entries[i].translation)]]])

\* The text as a .po literal writes it: newline as backslash-n, quote as
\* backslash-quote (for texts without a backslash)
Escaped(text) ==
    Replace(Replace(text, Str("\n"), Str("\\n")), Str("\""), Str("\\\""))

\* The .po catalog of language lang whose entries hold the entries (lang is
\* empty or a tag without whitespace)
AsPo(entries, lang) ==
    PoFile(IF lang = <<>> THEN PlainHeader ELSE CommentHeader(lang),
           [i \in 1..Len(entries) |->
               Pair(Escaped(entries[i].source), Escaped(entries[i].translation))])

\* C16: for the same glossary, the same detected language and the same entry
\* pairs (non-empty, without surrounding whitespace), _check_po and _check_ts
\* return the same issues in the same order: the list returned for a catalog
\* is the list for the .ts document of its entries, and the list returned for
\* a .ts document is the list for the catalog of its entries.
C16_SameIssuesForPoAndTs ==
    Checked =>
        LET entries == DocEntries
            lang == DocLanguage
        IN IF IsPo(file)
           THEN (\A i \in 1..Len(entries) :
                     Trimmed(entries[i].source) /\ Trimmed(entries[i].translation))
                => CheckTs(glossary, AsTs(entries, lang)) = result
           ELSE ((\A i \in 1..Len(entries) :
                      /\ "\\" \notin Range(entries[i].source)
                      /\ "\\" \notin Range(entries[i].translation))
                 /\ Range(lang) \cap Whitespace = {})
                => CheckPo(glossary, AsPo(entries, lang)) = result

\* A catalog of language de with two entries, checked against [File (sv),
\* Open (de), file]: the .ts document of the same entries gives the same two
\* issues, Open before file
C16_Witness ==
    /\ Checked
    /\ IsPo(file)
    /\ glossary = <<CFileSv, COpenDe, CFileLower>>
    /\ DocLanguage = Str("de")
    /\ DocEntries = LongTexts
    /\ Len(result.issues) = 2
    /\ result.issues[1].source = Str("Open")
    /\ CheckTs(glossary, AsTs(DocEntries, DocLanguage)).issues = result.issues

\* The literal read escape sequence by escape sequence, as the entry pattern
\* reads it: backslash-n is a newline, backslash-quote a quote, and every
\* other character or backslash pair (backslash-t, a doubled backslash)
\* stays as written
RECURSIVE UnescapedBySequence(_, _)
UnescapedBySequence(literal, i) ==
    LET stop == SkipUntil(literal, i, {"\\"})
    IN IF stop >= Len(literal) THEN SubSeq(literal, i, Len(literal))
       ELSE SubSeq(literal, i, stop - 1)
            \o (IF literal[stop + 1] = "n" THEN <<"\n">>
                ELSE IF literal[stop + 1] = "\"" THEN <<"\"">>
                ELSE <<literal[stop], literal[stop + 1]>>)
            \o UnescapedBySequence(literal, stop + 2)

\* The non-skipped entries of the checked catalog, their literals unescaped
\* sequence by sequence
EntriesBySequence ==
    LET entries == PoEntries(file.content)
        kept == SelectSeq(entries, LAMBDA e : e.msgid # <<>> /\ e.msgstr # <<>>)
    IN [i \in 1..Len(kept) |->
           Pair(UnescapedBySequence(kept[i].msgid, 1),
                UnescapedBySequence(kept[i].msgstr, 1))]

\* C17: the msgid and msgstr literals are unescaped for exactly backslash-n
\* and backslash-quote before the comparison and before truncation, every
\* other character and backslash sequence (backslash-t, a doubled backslash)
\* being left as written: the issues of a catalog are those of its entries
\* so unescaped.
C17_UnescapeExactlyTwoSequences ==
    (Checked /\ IsPo(file)) =>
        LET entries == EntriesBySequence
            lang == DocLanguage
            due == Due(entries, lang)
        IN result.issues
               = IssuesInOrder(entries, due,
                     [k \in 1..Len(glossary) |->
                         IF LanguageApplies(glossary[k], lang)
                         THEN FirstApplicableOccurrence(k, lang) ELSE 0])

\* The positions at which the lines of the checked catalog start
LineStarts ==
    {i \in 1..Len(file.content) : i = 1 \/ file.content[i - 1] = "\n"}

\* The line starting at s is a keyword line: keyword, a space, a quoted literal
KeywordLine(s, keyword) == StartsWithAt(file.content, s, keyword \o Str(" \""))

\* The literal of the keyword line starting at s: the text between the quote
\* after the keyword and the quote that ends the line
LineLiteral(s, keyword) ==
    SubSeq(file.content, s + Len(keyword) + 2,
           SkipUntil(file.content, s, {"\n"}) - 2)

\* The catalog entry of the line starting at s ends at the next blank line
EntryEnd(s) ==
    Min({i \in s..Len(file.content) :
            /\ file.content[i] = "\n"
            /\ i = Len(file.content) \/ file.content[i + 1] = "\n"}
        \cup {Len(file.content) + 1})

\* The msgstr "..." lines of the entry whose msgid "..." line starts at m
MsgstrLines(m) ==
    {s \in LineStarts : m < s /\ s < EntryEnd(m) /\ KeywordLine(s, Str("msgstr"))}

RECURSIVE Ascending(_)
Ascending(positions) ==
    IF positions = {} THEN <<>>
    ELSE <<Min(positions)>> \o Ascending(positions \ {Min(positions)})

\* One pair per catalog entry that has a msgid "..." line and a msgstr "..."
\* line, in file order
EntryPairs ==
    LET starts == Ascending({m \in LineStarts :
                                KeywordLine(m, Str("msgid")) /\ MsgstrLines(m) # {}})
    IN [i \in 1..Len(starts) |->
           [msgid |-> LineLiteral(starts[i], Str("msgid")),
            msgstr |-> LineLiteral(Min(MsgstrLines(starts[i])), Str("msgstr"))]]

\* C18: the pairs extracted from a catalog are, in file order, the msgid and
\* msgstr literals of each entry that has both lines: no pair joins the msgid
\* of one entry with the msgstr of a later entry, also when an entry holds
\* comment lines, msgctxt, msgid_plural or msgstr[n] lines.
C18_PairsWithinOneEntry ==
    (Checked /\ IsPo(file)) => PoEntries(file.content) = EntryPairs

\* The (entry, term) pairs of the language-applicable terms with an empty
\* source and a non-empty target that the entry's translation lacks
DueForEmptySource(entries, lang) ==
    {p \in (1..Len(entries)) \X (1..Len(glossary)) :
        /\ glossary[p[2]].source = <<>>
        /\ glossary[p[2]].target # <<>>
        /\ LanguageApplies(glossary[p[2]], lang)
        /\ ~IsSubstring(Lower(glossary[p[2]].target),
                        Lower(entries[p[1]].translation))}

\* C19: a language-applicable term with an empty source and a non-empty
\* target is reported once for every non-skipped entry whose translation
\* lacks the target, whatever the entry's source text is, and the issues with
\* an empty source are exactly these.
C19_EmptySourceMatchesEveryEntry ==
    Checked =>
        LET entries == DocEntries
            due == DueForEmptySource(entries, DocLanguage)
        IN /\ \A p \in due : IssueFor(entries, p) \in Range(result.issues)
           /\ Cardinality({i \in 1..Len(result.issues) : result.issues[i].source = <<>>})
                  = Cardinality(due)

\* The term ("", Fil) against the entry "Profile" / "Konto", which holds no
\* glossary source: one issue, with an empty source
C19_Witness ==
    /\ Checked
    /\ glossary = <<CEmptySource>>
    /\ DocEntries = <<Pair(Str("Profile"), Str("Konto"))>>
    /\ result.issues = <<Issue(<<>>, Str("Fil"), Str("Konto"))>>

=============================================================================
